---------------------------- MODULE Spec2Model ----------------------------
(***************************************************************************)
(* pypest: the suite tree built by the registration API (describe, it and  *)
(* the four hook registrars of TestRunner) and its execution by            *)
(* TestRunner.run / TestRunner.run_suite, which accumulate a TestResult.   *)
(*                                                                         *)
(* Objects live in heaps indexed by identity: suites[s] is the TestSuite   *)
(* object with identity s (its creation rank), and every registered        *)
(* callable (a test body or a hook) has an identity of its own.  None is   *)
(* Python's None.  Suite and test names are the strings the caller passes; *)
(* the model passes a fresh name with every call (the name of a suite or   *)
(* test is its identity), names being used by the code only to format      *)
(* report lines and error entries.                                         *)
(***************************************************************************)
EXTENDS Naturals, Sequences, FiniteSets

\* Bounds of the model.
MaxSuites == 3     \* describe() calls made
MaxFuncs == 3      \* callables registered by it() and the hook registrars
MaxRuns == 2       \* run() calls made on the runner
MaxRaises == 2     \* invocations, over all runs, that raise
MaxChain == 2      \* matcher calls chained on one Expectation

None == 0

VARIABLES
  suites,         \* heap of TestSuite objects, by identity
  root_suites,    \* TestRunner.root_suites: identities, in order
  suite_stack,    \* TestRunner.suite_stack
  current_suite,  \* TestRunner.current_suite: an identity or None
  result,         \* TestRunner.result: [passed, failed, errors]
  describing,     \* activations of describe() in progress, innermost last:
                  \* each holds its locals parent_suite and new_suite and,
                  \* as history, the suite_stack it was called with
  nfuncs,         \* number of callables registered so far
  exc,            \* how the latest API call ended: "none" or the error kind
                  \* that propagated out of it
  running,        \* activations of run_suite in progress, innermost last
  pc,             \* position of the run() in progress, "idle" between calls
  root_i,         \* run(): index in root_suites of the suite being run
  nruns,          \* number of run() calls started
  nraises,        \* number of invocations that raised, over all runs
  calls,          \* the invocations made by the run() in progress or last
                  \* finished, in order, with how each ended
  returned,       \* value returned by the last finished run(), None if none
  summary,        \* lines of the summary block printed by the last run()
  before,         \* history: self.result as the latest run() found it
  visited,        \* the suite header lines run_suite has printed during the
                  \* run() in progress or last finished: the suites, in order
  actual,         \* Expectation.actual of the Expectation under test
  wrapped,        \* history: the value expect() was called with
  chain           \* history: the matcher calls made on the Expectation, in
                  \* order, with how each ended

regVars == <<suites, root_suites, suite_stack, current_suite, describing,
             nfuncs>>
runVars == <<running, pc, root_i, nruns, nraises, calls, returned, summary,
             before, visited>>
expVars == <<actual, wrapped, chain>>
runnerVars == <<suites, root_suites, suite_stack, current_suite, result,
                describing, nfuncs, exc, running, pc, root_i, nruns, nraises,
                calls, returned, summary, before, visited>>
vars == <<suites, root_suites, suite_stack, current_suite, result, describing,
          nfuncs, exc, running, pc, root_i, nruns, nraises, calls, returned,
          summary, before, visited, actual, wrapped, chain>>

----------------------------------------------------------------------------
\* Sequence helpers.

Last(s) == s[Len(s)]

Front(s) == SubSeq(s, 1, Len(s) - 1)

----------------------------------------------------------------------------
\* Python values handed to expect() and to the matchers.  A value is its
\* type t and its payload: i for an int, s for the items of a list of ints
\* or the code points of a str, n for the name of a class or, for a
\* function, the name of the error its call raises ("" when it returns).

PyValue(t, i, s, n) == [t |-> t, i |-> i, s |-> s, n |-> n]

PyNone == PyValue("NoneType", 0, <<>>, "")
PyInt(i) == PyValue("int", i, <<>>, "")
PyStr(s) == PyValue("str", 0, s, "")
PyList(s) == PyValue("list", 0, s, "")
PyFunc(n) == PyValue("function", 0, <<>>, n)
PyType(n) == PyValue("type", 0, <<>>, n)

\* No Expectation has been created.
Absent == PyValue("absent", 0, <<>>, "")

\* The values the model hands to expect(): None, 0, 1, 2, "", "ab", [],
\* [1, 2], a function that returns, one that raises ZeroDivisionError and
\* one that raises KeyboardInterrupt.
Actuals ==
  { PyNone, PyInt(0), PyInt(1), PyInt(2), PyStr(<<>>), PyStr(<<97, 98>>),
    PyList(<<>>), PyList(<<1, 2>>),
    PyFunc(""), PyFunc("ZeroDivisionError"), PyFunc("KeyboardInterrupt") }

\* The values handed to the matchers as `expected`.
Expecteds == Actuals \cup {PyStr(<<97>>), PyType("int"), PyType("str"),
                           PyType("list")}

\* The error kinds handed to to_throw, None being its default.
Kinds ==
  { PyNone, PyType("ZeroDivisionError"), PyType("TypeError"),
    PyType("AssertionError"), PyType("KeyboardInterrupt") }

\* The classes a class derives from, itself included.
Bases(n) ==
  {n, "object"} \cup
  CASE n = "ZeroDivisionError" -> {"ArithmeticError", "Exception",
                                   "BaseException"}
    [] n \in {"AssertionError", "TypeError", "RuntimeError", "ValueError",
              "ArithmeticError"} -> {"Exception", "BaseException"}
    [] n \in {"Exception", "KeyboardInterrupt", "SystemExit"} ->
         {"BaseException"}
    [] OTHER -> {}

\* bool(v)
Truthy(v) ==
  CASE v.t = "NoneType" -> FALSE
    [] v.t = "int" -> v.i # 0
    [] v.t \in {"str", "list"} -> v.s # <<>>
    [] OTHER -> TRUE

\* a != b.  Values of distinct types are unequal, a function or a class is
\* equal to itself only.
PyNe(a, b) == a # b

\* The order of two lists, or of two strs by code point.
RECURSIVE SeqLt(_, _)
SeqLt(a, b) ==
  IF b = <<>> THEN FALSE
  ELSE IF a = <<>> THEN TRUE
  ELSE IF a[1] # b[1] THEN a[1] < b[1]
  ELSE SeqLt(Tail(a), Tail(b))

\* Whether a < b, a > b, a <= b and a >= b are defined: they raise TypeError
\* between values of distinct types, and on None, functions and classes.
Ordered(a, b) == a.t = b.t /\ a.t \in {"int", "str", "list"}

\* a < b
PyLt(a, b) == IF a.t = "int" THEN a.i < b.i ELSE SeqLt(a.s, b.s)

\* Whether `x in c` is defined: c is a list, or both are strs; else `in`
\* raises TypeError.
Iterable(x, c) == c.t = "list" \/ (c.t = "str" /\ x.t = "str")

\* x in c: an item of the list equal to x, or x a substring of the str.
PyIn(x, c) ==
  IF c.t = "list"
  THEN \E k \in 1..Len(c.s) : ~PyNe(PyInt(c.s[k]), x)
  ELSE \E k \in 1..(Len(c.s) + 1) :
         /\ k + Len(x.s) - 1 <= Len(c.s)
         /\ SubSeq(c.s, k, k + Len(x.s) - 1) = x.s

\* Whether len(v) is defined; else len raises TypeError.
Sized(v) == v.t \in {"str", "list"}

\* len(v)
PyLen(v) == PyInt(Len(v.s))

\* isinstance(v, cls) for a class cls; on another cls it raises TypeError.
PyIsInstance(v, cls) == cls.n \in Bases(v.t)

\* callable(v)
Callable(v) == v.t \in {"function", "type"}

----------------------------------------------------------------------------
\* The suite tree model.

\* TestResult.__init__
TestResult == [passed |-> 0, failed |-> 0, errors |-> <<>>]

\* TestSuite.__init__
TestSuite(name) ==
  [name |-> name, tests |-> <<>>, before_each_hooks |-> <<>>,
   before_all_hooks |-> <<>>, after_each_hooks |-> <<>>,
   after_all_hooks |-> <<>>, nested_suites |-> <<>>]

\* Test.__init__
Test(name, test_func) == [name |-> name, test_func |-> test_func]

\* TestRunner.__init__
Init ==
  /\ suites = <<>>
  /\ root_suites = <<>>
  /\ suite_stack = <<>>
  /\ current_suite = None
  /\ result = TestResult
  /\ describing = <<>>
  /\ nfuncs = 0
  /\ exc = "none"
  /\ running = <<>>
  /\ pc = "idle"
  /\ root_i = 0
  /\ nruns = 0
  /\ nraises = 0
  /\ calls = <<>>
  /\ returned = None
  /\ summary = <<>>
  /\ before = TestResult
  /\ visited = <<>>
  /\ actual = Absent
  /\ wrapped = Absent
  /\ chain = <<>>

----------------------------------------------------------------------------
\* Registration API.  Registration calls are made before the first run().

Registering == pc = "idle" /\ nruns = 0

\* describe() linking the new suite to the roots as well as to its parent.
DescribeEnterAlsoRoot ==
  /\ Registering
  /\ Len(suites) < MaxSuites
  /\ LET parent_suite == current_suite
         new_suite == Len(suites) + 1
         made == Append(suites, TestSuite(new_suite))
     IN /\ IF parent_suite # None
           THEN suites' = [made EXCEPT ![parent_suite].nested_suites =
                                         Append(@, new_suite)]
           ELSE suites' = made
        /\ root_suites' = Append(root_suites, new_suite)
        /\ suite_stack' = Append(suite_stack, new_suite)
        /\ current_suite' = new_suite
        /\ describing' = Append(describing, [parent_suite |-> parent_suite,
                                             new_suite |-> new_suite,
                                             stack |-> suite_stack])
  /\ exc' = "none"
  /\ UNCHANGED <<result, nfuncs, runVars, expVars>>

\* describe(), up to the call of suite_func: the new suite is linked to the
\* current suite or to the roots, pushed and made current.
DescribeEnter ==
  /\ Registering
  /\ Len(suites) < MaxSuites
  /\ LET parent_suite == current_suite
         new_suite == Len(suites) + 1
         made == Append(suites, TestSuite(new_suite))
     IN /\ IF parent_suite # None
           THEN /\ suites' = [made EXCEPT ![parent_suite].nested_suites =
                                            Append(@, new_suite)]
                /\ UNCHANGED root_suites
           ELSE /\ suites' = made
                /\ root_suites' = Append(root_suites, new_suite)
        /\ suite_stack' = Append(suite_stack, new_suite)
        /\ current_suite' = new_suite
        /\ describing' = Append(describing, [parent_suite |-> parent_suite,
                                             new_suite |-> new_suite,
                                             stack |-> suite_stack])
  /\ exc' = "none"
  /\ UNCHANGED <<result, nfuncs, runVars, expVars>>

\* describe(), after suite_func has returned: pop, restore the local
\* parent_suite.
DescribeReturn ==
  /\ Registering
  /\ describing # <<>>
  /\ suite_stack' = Front(suite_stack)
  /\ current_suite' = Last(describing).parent_suite
  /\ describing' = Front(describing)
  /\ exc' = "none"
  /\ UNCHANGED <<suites, root_suites, result, nfuncs, runVars, expVars>>

\* suite_func of the innermost describe() raises.  describe() has no handler
\* and no finally clause: the error leaves it without the pop and the
\* restore.  It unwinds k activations of describe() before a caller catches
\* it: an enclosing suite_func (k < Len(describing)) or the top level.
DescribeRaise(k) ==
  /\ Registering
  /\ k \in 1..Len(describing)
  /\ describing' = SubSeq(describing, 1, Len(describing) - k)
  /\ exc' = "Exception"
  /\ UNCHANGED <<suites, root_suites, suite_stack, current_suite, result,
                 nfuncs, runVars, expVars>>

\* The body shared by the five registrars: the guard on current_suite, then
\* one append to the list `field` of the current suite.
Register(field, item) ==
  /\ Registering
  /\ IF current_suite = None
     THEN /\ exc' = "RuntimeError"
          /\ UNCHANGED <<suites, nfuncs>>
     ELSE /\ nfuncs < MaxFuncs
          /\ suites' = [suites EXCEPT ![current_suite][field] =
                                        Append(@, item)]
          /\ nfuncs' = nfuncs + 1
          /\ exc' = "none"
  /\ UNCHANGED <<root_suites, suite_stack, current_suite, result, describing,
                 runVars, expVars>>

\* The callable passed to a registrar: a new one with each call.
NewFunc == nfuncs + 1

It == Register("tests", Test(NewFunc, NewFunc))

BeforeEach == Register("before_each_hooks", NewFunc)

BeforeAll == Register("before_all_hooks", NewFunc)

AfterEach == Register("after_each_hooks", NewFunc)

AfterAll == Register("after_all_hooks", NewFunc)

----------------------------------------------------------------------------
\* Errors raised by test bodies and hooks.  Each is an exception object: its
\* type and the text str(e) gives.  AssertionError (what a failed matcher
\* raises) derives from Exception; KeyboardInterrupt derives from
\* BaseException only, as SystemExit does.

Errors ==
  { [type |-> "AssertionError", text |-> "Expected 1 to equal 2"],
    [type |-> "KeyboardInterrupt", text |-> ""] }

\* How an invocation of a callable ends: it returns, or it raises an error.
Returns == [type |-> "return", text |-> ""]

Outcomes == {Returns} \cup Errors

\* A handler `except ValueError as e` in the place of run_suite's.
IsValueError(e) == e.type = "ValueError"

\* isinstance(e, Exception): what the handlers `except Exception as e` of
\* run_suite catch.
IsException(e) == e.type \in {"AssertionError", "ZeroDivisionError",
                              "RuntimeError", "TypeError", "ValueError"}

\* The f-strings that format the entries of result.errors, as the sequence
\* of their parts.
HookErrorMsg(kind, name, e) ==
  IF kind \in {"beforeAll", "afterAll"}
  THEN <<kind, " hook failed in '", name, "': ", e.text>>
  ELSE <<kind, " hook failed for '", name, "': ", e.text>>

TestErrorMsg(name, e) == <<name, ": ", e.text>>

----------------------------------------------------------------------------
\* Execution engine.  A step of a run is one invocation of a callable, a hook
\* or a test body, with what run_suite does of its outcome and the control
\* flow up to the next invocation.  An activation of run_suite is at one of
\* the calls it makes: a hook of one of its four loops, a test body, the
\* recursive call on a nested suite, or its return.  t, h and n are the
\* positions of the loops over tests, over a hook list and over
\* nested_suites.

\* run_suite with its first loop skipped.
ActivationAtTests(s) ==
  [suite |-> s, pc |-> "tests", t |-> 1, h |-> 1, n |-> 1]

\* run_suite is entered: at its first loop.
Activation(s) == [suite |-> s, pc |-> "before_all", t |-> 1, h |-> 1, n |-> 1]

\* run_suite without its loop over nested_suites.
AfterLoopSkipsNested(loop) ==
  CASE loop = "before_all" -> "tests"
    [] loop = "tests" -> "after_all"
    [] loop = "nested" -> "after_all"
    [] loop = "after_all" -> "return"

\* run_suite with the loop over nested_suites placed before the loop over
\* tests.
AfterLoopNestedFirst(loop) ==
  CASE loop = "before_all" -> "nested"
    [] loop = "nested" -> "tests"
    [] loop = "tests" -> "after_all"
    [] loop = "after_all" -> "return"

\* run_suite with the loop over after_all_hooks placed before the loop over
\* nested_suites.
AfterLoopAfterAllFirst(loop) ==
  CASE loop = "before_all" -> "tests"
    [] loop = "tests" -> "after_all"
    [] loop = "after_all" -> "nested"
    [] loop = "nested" -> "return"

\* The statement that follows each of the four top-level loops of run_suite.
AfterLoop(loop) ==
  CASE loop = "before_all" -> "tests"
    [] loop = "tests" -> "nested"
    [] loop = "nested" -> "after_all"
    [] loop = "after_all" -> "return"

\* A test body followed at once by the next test.
AfterTestFuncNextTest(f) == [f EXCEPT !.pc = "tests", !.t = @ + 1, !.h = 1]

\* What follows the test body in the loop over tests: the after_each loop.
AfterTestFunc(f) == [f EXCEPT !.pc = "after_each", !.h = 1]

\* The next iteration of a loop over a hook list.
NextHook(f) == [f EXCEPT !.h = @ + 1]

\* A loop is entered at its first iteration.
Enter(f, loop) ==
  [f EXCEPT !.pc = loop,
            !.t = IF loop = "tests" THEN 1 ELSE @,
            !.h = 1,
            !.n = IF loop = "nested" THEN 1 ELSE @]

\* Control flow of run_suite between two calls: the loop headers, which go
\* on to the next statement when a list is exhausted.
RECURSIVE Settle(_)
Settle(f) ==
  LET S == suites[f.suite] IN
  CASE f.pc = "before_all" ->
         IF f.h <= Len(S.before_all_hooks) THEN f
         ELSE Settle(Enter(f, AfterLoop("before_all")))
    [] f.pc = "tests" ->
         IF f.t <= Len(S.tests)
         THEN Settle([f EXCEPT !.pc = "before_each", !.h = 1])
         ELSE Settle(Enter(f, AfterLoop("tests")))
    [] f.pc = "before_each" ->
         IF f.h <= Len(S.before_each_hooks) THEN f
         ELSE [f EXCEPT !.pc = "test_func", !.h = 1]
    [] f.pc = "after_each" ->
         IF f.h <= Len(S.after_each_hooks) THEN f
         ELSE Settle([f EXCEPT !.pc = "tests", !.t = @ + 1, !.h = 1])
    [] f.pc = "nested" ->
         IF f.n <= Len(S.nested_suites) THEN f
         ELSE Settle(Enter(f, AfterLoop("nested")))
    [] f.pc = "after_all" ->
         IF f.h <= Len(S.after_all_hooks) THEN f
         ELSE Settle(Enter(f, AfterLoop("after_all")))
    [] OTHER -> f

\* Control flow of run() and run_suite between two invocations of a callable:
\* from the activations `stack`, the innermost of them at f, with run() at
\* index r of its loop over root_suites, up to the next hook or test body.
\* An activation at the loop over nested_suites calls run_suite on the
\* nested suite; one at its end returns to its caller, which goes on with
\* its next nested suite; with no activation left, run() calls run_suite on
\* its next root suite, or is through with its loop.  Every run_suite that
\* is entered prints the header line of its suite: `printed` is those lines.
RECURSIVE Resume(_, _, _)
Resume(stack, f, r) ==
  LET g == Settle(f) IN
  CASE g.pc = "nested" ->
         LET suite == suites[g.suite].nested_suites[g.n]
             to == Resume(Append(stack, g), Activation(suite), r)
         IN [to EXCEPT !.printed = <<suites[suite].name>> \o @]
    [] g.pc = "return" ->
         IF stack # <<>>
         THEN Resume(Front(stack), [Last(stack) EXCEPT !.n = @ + 1], r)
         ELSE IF r <= Len(root_suites)
         THEN LET suite == root_suites[r]
                  to == Resume(<<>>, Activation(suite), r + 1)
              IN [to EXCEPT !.printed = <<suites[suite].name>> \o @]
         ELSE [running |-> <<>>, root_i |-> r, printed |-> <<>>]
    [] OTHER -> [running |-> Append(stack, g), root_i |-> r,
                 printed |-> <<>>]

Top == Last(running)

TopSuite == suites[Top.suite]

Goto(f) ==
  LET to == Resume(Front(running), f, root_i) IN
  /\ running' = to.running
  /\ root_i' = to.root_i
  /\ visited' = visited \o to.printed

\* The record kept of one invocation: which list it comes from, of which
\* suite, the callable, the test it runs for (None for an all-hook) and how
\* it ended.
Call(kind, func, test, o) ==
  [kind |-> kind, suite |-> Top.suite, func |-> func, test |-> test,
   out |-> o.type]

\* An error no handler of run_suite catches leaves every activation of
\* run_suite and run() itself.
Propagate(e) ==
  /\ running' = <<>>
  /\ pc' = "idle"
  /\ root_i' = 0
  /\ exc' = e.type
  /\ UNCHANGED <<result, visited>>

\* A handler of a hook's error that gives up the hook after the one that
\* raised.
TryHookSkipsNextHook(kind, name, o, next) ==
  IF o = Returns
  THEN Goto(next) /\ UNCHANGED <<result, pc, exc>>
  ELSE IF IsException(o)
  THEN /\ result' = [result EXCEPT
                       !.errors = Append(@, HookErrorMsg(kind, name, o))]
       /\ Goto(NextHook(next))
       /\ UNCHANGED <<pc, exc>>
  ELSE Propagate(o)

\* A handler of a hook's error that counts it among the failed tests.
TryHookCountsFailed(kind, name, o, next) ==
  IF o = Returns
  THEN Goto(next) /\ UNCHANGED <<result, pc, exc>>
  ELSE IF IsException(o)
  THEN /\ result' = [result EXCEPT
                       !.failed = @ + 1,
                       !.errors = Append(@, HookErrorMsg(kind, name, o))]
       /\ Goto(next)
       /\ UNCHANGED <<pc, exc>>
  ELSE Propagate(o)

\* try: hook() except Exception as e: ..., for a hook of any of the four
\* kinds; `next` is the activation after this iteration.
TryHook(kind, name, o, next) ==
  IF o = Returns
  THEN Goto(next) /\ UNCHANGED <<result, pc, exc>>
  ELSE IF IsException(o)
  THEN /\ result' = [result EXCEPT
                       !.errors = Append(@, HookErrorMsg(kind, name, o))]
       /\ Goto(next)
       /\ UNCHANGED <<pc, exc>>
  ELSE Propagate(o)

\* try: test.test_func() ... except Exception as e: ...
TryTest(test, o, next) ==
  IF o = Returns
  THEN /\ result' = [result EXCEPT !.passed = @ + 1]
       /\ Goto(next)
       /\ UNCHANGED <<pc, exc>>
  ELSE IF IsException(o)
  THEN /\ result' = [result EXCEPT
                       !.failed = @ + 1,
                       !.errors = Append(@, TestErrorMsg(test.name, o))]
       /\ Goto(next)
       /\ UNCHANGED <<pc, exc>>
  ELSE Propagate(o)

\* What every invocation leaves alone or counts.
Invoked(call, o) ==
  /\ o # Returns => nraises < MaxRaises
  /\ nraises' = IF o = Returns THEN nraises ELSE nraises + 1
  /\ calls' = Append(calls, call)
  /\ UNCHANGED <<expVars, regVars, nruns, returned, summary, before>>

InRunSuite(at) == pc = "running" /\ running # <<>> /\ Top.pc = at

\* for hook in suite.before_all_hooks
RunBeforeAllHook(o) ==
  /\ InRunSuite("before_all")
  /\ LET hook == TopSuite.before_all_hooks[Top.h] IN
       /\ TryHook("beforeAll", TopSuite.name, o, NextHook(Top))
       /\ Invoked(Call("before_all", hook, None, o), o)

\* for hook in suite.before_each_hooks, inside the loop over suite.tests
RunBeforeEachHook(o) ==
  /\ InRunSuite("before_each")
  /\ LET hook == TopSuite.before_each_hooks[Top.h]
         test == TopSuite.tests[Top.t] IN
       /\ TryHook("beforeEach", test.name, o, NextHook(Top))
       /\ Invoked(Call("before_each", hook, test.test_func, o), o)

\* the test body
RunTestFunc(o) ==
  /\ InRunSuite("test_func")
  /\ LET test == TopSuite.tests[Top.t] IN
       /\ TryTest(test, o, AfterTestFunc(Top))
       /\ Invoked(Call("test_func", test.test_func, test.test_func, o), o)

\* for hook in suite.after_each_hooks
RunAfterEachHook(o) ==
  /\ InRunSuite("after_each")
  /\ LET hook == TopSuite.after_each_hooks[Top.h]
         test == TopSuite.tests[Top.t] IN
       /\ TryHook("afterEach", test.name, o, NextHook(Top))
       /\ Invoked(Call("after_each", hook, test.test_func, o), o)

\* for hook in suite.after_all_hooks
RunAfterAllHook(o) ==
  /\ InRunSuite("after_all")
  /\ LET hook == TopSuite.after_all_hooks[Top.h] IN
       /\ TryHook("afterAll", TopSuite.name, o, NextHook(Top))
       /\ Invoked(Call("after_all", hook, None, o), o)

\* run() is called, at the top level, once every describe() has popped the
\* suite it pushed.  (run and run_suite neither read nor write suite_stack
\* and current_suite: a run started in another registration context makes
\* the same steps.)  It keeps self.result, the TestResult made by
\* TestRunner.__init__.
RunBegin ==
  /\ pc = "idle"
  /\ describing = <<>>
  /\ suite_stack = <<>>
  /\ current_suite = None
  /\ nruns < MaxRuns
  /\ pc' = "running"
  /\ LET to == IF root_suites = <<>>
               THEN [running |-> <<>>, root_i |-> 1, printed |-> <<>>]
               ELSE [Resume(<<>>, Activation(root_suites[1]), 2) EXCEPT
                       !.printed = <<suites[root_suites[1]].name>> \o @]
     IN /\ running' = to.running
        /\ root_i' = to.root_i
        /\ visited' = to.printed
  /\ nruns' = nruns + 1
  /\ calls' = <<>>
  /\ before' = result
  /\ exc' = "none"
  /\ UNCHANGED <<expVars, regVars, result, nraises, returned, summary>>

\* run() printing its Passed and Failed lines whatever the counts.
SummaryLinesUnconditional(r) ==
  <<<<"Test Results:">>>>
  \o <<<<"Passed: ", r.passed>>>>
  \o <<<<"Failed: ", r.failed>>>>
  \o <<<<"Total: ", r.passed + r.failed>>, <<"Time: ">>>>
  \o (IF r.failed > 0
      THEN <<<<"Failures:">>>>
           \o [i \in 1..Len(r.errors) |-> <<"  ", r.errors[i]>>]
      ELSE <<>>)

\* The summary block run() prints, as the sequence of its lines: each line
\* is its literal text followed by the value formatted after it.  Colour
\* codes, the elapsed time and the cross mark of a failure line are left
\* out.
SummaryLines(r) ==
  <<<<"Test Results:">>>>
  \o (IF r.passed > 0 THEN <<<<"Passed: ", r.passed>>>> ELSE <<>>)
  \o (IF r.failed > 0 THEN <<<<"Failed: ", r.failed>>>> ELSE <<>>)
  \o <<<<"Total: ", r.passed + r.failed>>, <<"Time: ">>>>
  \o (IF r.failed > 0
      THEN <<<<"Failures:">>>>
           \o [i \in 1..Len(r.errors) |-> <<"  ", r.errors[i]>>]
      ELSE <<>>)

\* run(), after the loop over root_suites: the summary and the return value.
RunSummary ==
  /\ pc = "running"
  /\ running = <<>>
  /\ root_i > Len(root_suites)
  /\ summary' = SummaryLines(result)
  /\ returned' = (result.failed = 0)
  /\ pc' = "idle"
  /\ root_i' = 0
  /\ UNCHANGED <<expVars, regVars, result, exc, running, nruns, nraises, calls,
                 before, visited>>

Next ==
  \/ DescribeEnter
  \/ DescribeReturn
  \/ \E k \in 1..MaxSuites : DescribeRaise(k)
  \/ It
  \/ BeforeEach
  \/ BeforeAll
  \/ AfterEach
  \/ AfterAll
  \/ RunBegin
  \/ \E o \in Outcomes : RunBeforeAllHook(o)
  \/ \E o \in Outcomes : RunBeforeEachHook(o)
  \/ \E o \in Outcomes : RunTestFunc(o)
  \/ \E o \in Outcomes : RunAfterEachHook(o)
  \/ \E o \in Outcomes : RunAfterAllHook(o)
  \/ RunSummary

Spec == Init /\ [][Next]_vars

----------------------------------------------------------------------------
\* Expectation and its matchers.  A matcher call ends in one of two ways: it
\* returns an Expectation, given by its actual, or it raises an error, given
\* by its type and by its message: the text of the f-string and the values
\* formatted into it.  invoked counts the calls it made of self.actual.

ReturnSelf(self) ==
  [type |-> "return", text |-> "", args |-> <<>>, invoked |-> 0,
   actual |-> self]

Raise(self, type, text, args) ==
  [type |-> type, text |-> text, args |-> args, invoked |-> 0,
   actual |-> self]

\* The TypeError of an operator or builtin applied to operands it does not
\* support.
TypeError(self, op, operands) ==
  Raise(self, "TypeError", op,
        [k \in 1..Len(operands) |-> PyType(operands[k].t)])

to_be(self, expected) ==
  IF PyNe(self, expected)
  THEN Raise(self, "AssertionError", "Expected {} to be {}",
             <<self, expected>>)
  ELSE ReturnSelf(self)

to_equal(self, expected) ==
  IF PyNe(self, expected)
  THEN Raise(self, "AssertionError", "Expected {} to equal {}",
             <<self, expected>>)
  ELSE ReturnSelf(self)

to_be_truthy(self) ==
  IF ~Truthy(self)
  THEN Raise(self, "AssertionError", "Expected {} to be truthy", <<self>>)
  ELSE ReturnSelf(self)

to_be_falsy(self) ==
  IF Truthy(self)
  THEN Raise(self, "AssertionError", "Expected {} to be falsy", <<self>>)
  ELSE ReturnSelf(self)

to_be_none(self) ==
  IF self # PyNone
  THEN Raise(self, "AssertionError", "Expected {} to be None", <<self>>)
  ELSE ReturnSelf(self)

to_be_greater_than(self, expected) ==
  IF ~Ordered(self, expected) THEN TypeError(self, ">", <<self, expected>>)
  ELSE IF ~PyLt(expected, self)
  THEN Raise(self, "AssertionError", "Expected {} to be greater than {}",
             <<self, expected>>)
  ELSE ReturnSelf(self)

to_be_less_than(self, expected) ==
  IF ~Ordered(self, expected) THEN TypeError(self, "<", <<self, expected>>)
  ELSE IF ~PyLt(self, expected)
  THEN Raise(self, "AssertionError", "Expected {} to be less than {}",
             <<self, expected>>)
  ELSE ReturnSelf(self)

to_be_greater_than_or_equal(self, expected) ==
  IF ~Ordered(self, expected) THEN TypeError(self, ">=", <<self, expected>>)
  ELSE IF PyLt(self, expected)
  THEN Raise(self, "AssertionError",
             "Expected {} to be greater than or equal to {}",
             <<self, expected>>)
  ELSE ReturnSelf(self)

to_be_less_than_or_equal(self, expected) ==
  IF ~Ordered(self, expected) THEN TypeError(self, "<=", <<self, expected>>)
  ELSE IF PyLt(expected, self)
  THEN Raise(self, "AssertionError",
             "Expected {} to be less than or equal to {}",
             <<self, expected>>)
  ELSE ReturnSelf(self)

to_contain(self, expected) ==
  IF ~Iterable(expected, self) THEN TypeError(self, "in", <<expected, self>>)
  ELSE IF ~PyIn(expected, self)
  THEN Raise(self, "AssertionError", "Expected {} to contain {}",
             <<self, expected>>)
  ELSE ReturnSelf(self)

\* to_have_length returning an Expectation of the length.
to_have_length_wraps_length(self, expected) ==
  IF ~Sized(self) THEN TypeError(self, "len", <<self>>)
  ELSE LET actual_length == PyLen(self) IN
       IF PyNe(actual_length, expected)
       THEN Raise(self, "AssertionError",
                  "Expected {} to have length {}, but got {}",
                  <<self, expected, actual_length>>)
       ELSE ReturnSelf(actual_length)

to_have_length(self, expected) ==
  IF ~Sized(self) THEN TypeError(self, "len", <<self>>)
  ELSE LET actual_length == PyLen(self) IN
       IF PyNe(actual_length, expected)
       THEN Raise(self, "AssertionError",
                  "Expected {} to have length {}, but got {}",
                  <<self, expected, actual_length>>)
       ELSE ReturnSelf(self)

to_be_instance_of(self, expected_type) ==
  IF expected_type.t # "type"
  THEN TypeError(self, "isinstance", <<self, expected_type>>)
  ELSE IF ~PyIsInstance(self, expected_type)
  THEN Raise(self, "AssertionError",
             "Expected {} to be instance of {}, but got {}",
             <<self, expected_type, PyType(self.t)>>)
  ELSE ReturnSelf(self)

\* self.actual(): a function returns or raises its error, a class returns
\* an instance.
CallActual(self) ==
  IF self.t = "function" /\ self.n # ""
  THEN [Raise(self, self.n, "", <<>>) EXCEPT !.invoked = 1]
  ELSE [ReturnSelf(self) EXCEPT !.invoked = 1]

\* to_throw with a handler that never looks at expected_exception.
to_throw_any_kind(self, expected_exception) ==
  IF ~Callable(self)
  THEN Raise(self, "AssertionError",
             "Expected a callable function to test for exceptions", <<>>)
  ELSE LET call == CallActual(self)
           e == IF call.type = "return"
                THEN [Raise(self, "AssertionError",
                        "Expected function to throw an exception, but it didn't",
                        <<>>) EXCEPT !.invoked = 1]
                ELSE call
       IN IF IsException(e)
          THEN [ReturnSelf(self) EXCEPT !.invoked = 1]
          ELSE e

\* The try statement of to_throw: e is the error raised in its body, by
\* self.actual() or, when that returned, by the raise statement that follows
\* it.  The handler catches e when it is an Exception, and then raises only
\* on an expected_exception that e is not an instance of; any other e
\* propagates.
to_throw(self, expected_exception) ==
  IF ~Callable(self)
  THEN Raise(self, "AssertionError",
             "Expected a callable function to test for exceptions", <<>>)
  ELSE LET call == CallActual(self)
           e == IF call.type = "return"
                THEN [Raise(self, "AssertionError",
                        "Expected function to throw an exception, but it didn't",
                        <<>>) EXCEPT !.invoked = 1]
                ELSE call
       IN IF IsException(e)
          THEN IF /\ Truthy(expected_exception)
                  /\ expected_exception.n \notin Bases(e.type)
               THEN [Raise(self, "AssertionError",
                           "Expected function to throw {}, but got {}",
                           <<expected_exception, PyType(e.type)>>)
                     EXCEPT !.invoked = 1]
               ELSE [ReturnSelf(self) EXCEPT !.invoked = 1]
          ELSE e

\* expect(actual): a new Expectation, on which a chain of matcher calls
\* starts.
Expect ==
  \E v \in Actuals :
    /\ actual' = v
    /\ wrapped' = v
    /\ chain' = <<>>
    /\ UNCHANGED runnerVars

\* A matcher is called on the Expectation that expect() or the matcher call
\* before it returned, and ends as o tells.
Matcher(name, expected, o) ==
  /\ actual # Absent
  /\ Len(chain) < MaxChain
  /\ chain # <<>> => Last(chain).outcome.type = "return"
  /\ chain' = Append(chain, [matcher |-> name, self |-> actual,
                             expected |-> expected, outcome |-> o])
  /\ actual' = o.actual
  /\ UNCHANGED <<wrapped, runnerVars>>

ToBe == \E e \in Expecteds : Matcher("to_be", e, to_be(actual, e))

ToEqual == \E e \in Expecteds : Matcher("to_equal", e, to_equal(actual, e))

ToBeTruthy == Matcher("to_be_truthy", PyNone, to_be_truthy(actual))

ToBeFalsy == Matcher("to_be_falsy", PyNone, to_be_falsy(actual))

ToBeNone == Matcher("to_be_none", PyNone, to_be_none(actual))

ToBeGreaterThan ==
  \E e \in Expecteds :
    Matcher("to_be_greater_than", e, to_be_greater_than(actual, e))

ToBeLessThan ==
  \E e \in Expecteds :
    Matcher("to_be_less_than", e, to_be_less_than(actual, e))

ToBeGreaterThanOrEqual ==
  \E e \in Expecteds :
    Matcher("to_be_greater_than_or_equal", e,
            to_be_greater_than_or_equal(actual, e))

ToBeLessThanOrEqual ==
  \E e \in Expecteds :
    Matcher("to_be_less_than_or_equal", e,
            to_be_less_than_or_equal(actual, e))

ToContain ==
  \E e \in Expecteds : Matcher("to_contain", e, to_contain(actual, e))

ToHaveLength ==
  \E e \in Expecteds : Matcher("to_have_length", e, to_have_length(actual, e))

ToBeInstanceOf ==
  \E e \in Expecteds :
    Matcher("to_be_instance_of", e, to_be_instance_of(actual, e))

ToThrow == \E k \in Kinds : Matcher("to_throw", k, to_throw(actual, k))

MatcherNext ==
  \/ Expect
  \/ ToBe
  \/ ToEqual
  \/ ToBeTruthy
  \/ ToBeFalsy
  \/ ToBeNone
  \/ ToBeGreaterThan
  \/ ToBeLessThan
  \/ ToBeGreaterThanOrEqual
  \/ ToBeLessThanOrEqual
  \/ ToContain
  \/ ToHaveLength
  \/ ToBeInstanceOf
  \/ ToThrow

MatcherSpec == Init /\ [][MatcherNext]_vars

----------------------------------------------------------------------------
\* Vocabulary of the properties.

Range(f) == {f[i] : i \in DOMAIN f}

IsPrefix(a, b) == Len(a) <= Len(b) /\ a = SubSeq(b, 1, Len(a))

RECURSIVE Flatten(_)
Flatten(ss) == IF ss = <<>> THEN <<>> ELSE Head(ss) \o Flatten(Tail(ss))

\* A run() has been called; it has returned; an error has propagated out of
\* it.
Started == nruns > 0

Finished == Started /\ pc = "idle" /\ exc = "none"

Aborted == Started /\ pc = "idle" /\ exc # "none"

\* The suites below s in the tree.
RECURSIVE Descendants(_)
Descendants(s) ==
  LET children == Range(suites[s].nested_suites) IN
  children \cup UNION {Descendants(c) : c \in children}

\* An invocation, apart from how it ended.
Planned(c) == [kind |-> c.kind, suite |-> c.suite, func |-> c.func,
               test |-> c.test]

HookCalls(kind, s, hooks, test) ==
  [j \in 1..Len(hooks) |->
     [kind |-> kind, suite |-> s, func |-> hooks[j], test |-> test]]

\* The invocation sequence the ordering rules give for suite s: beforeAll
\* hooks; for each direct test its beforeEach hooks, its body, its afterEach
\* hooks; each child suite; afterAll hooks.
RECURSIVE SuiteSchedule(_)
SuiteSchedule(s) ==
  LET S == suites[s]
      AroundTest(test) ==
        HookCalls("before_each", s, S.before_each_hooks, test.test_func)
        \o <<[kind |-> "test_func", suite |-> s, func |-> test.test_func,
              test |-> test.test_func]>>
        \o HookCalls("after_each", s, S.after_each_hooks, test.test_func)
  IN HookCalls("before_all", s, S.before_all_hooks, None)
     \o Flatten([i \in 1..Len(S.tests) |-> AroundTest(S.tests[i])])
     \o Flatten([i \in 1..Len(S.nested_suites) |->
                   SuiteSchedule(S.nested_suites[i])])
     \o HookCalls("after_all", s, S.after_all_hooks, None)

RunSchedule ==
  Flatten([i \in 1..Len(root_suites) |-> SuiteSchedule(root_suites[i])])

\* Indices of the invocations of the run that satisfy P.
CallsWhere(P(_)) == {i \in 1..Len(calls) : P(calls[i])}

IsBody(c) == c.kind = "test_func"

IsHook(c) == c.kind # "test_func"

Raised(c) == c.out # "return"

RaisedException(c) == c.out = "AssertionError"

\* The invocations of the run that ended with an error run_suite caught, in
\* order, and the entries the run has added to result.errors.
Failures == SelectSeq(calls, RaisedException)

NewErrors == SubSeq(result.errors, Len(before.errors) + 1, Len(result.errors))

TestOf(c) ==
  CHOOSE test \in Range(suites[c.suite].tests) : test.test_func = c.test

TextOf(type) == (CHOOSE e \in Errors : e.type = type).text

----------------------------------------------------------------------------
\* C1 as stated: whatever the hooks and test bodies raise, run() returns, no
\* error leaves it, and every invocation of the schedule has been made.
C1_AnyErrorIsolated ==
  (Started /\ pc = "idle") =>
    /\ exc = "none"
    /\ Range(RunSchedule) \subseteq {Planned(calls[i]) : i \in 1..Len(calls)}

\* C1, amended: an error derived from Exception, raised by a hook or a test
\* body, never ends the run: run() goes on, returns, and has then made every
\* invocation of the schedule.  Only an error that is no Exception
\* (KeyboardInterrupt) leaves run(), at the invocation that raised it.
C1_ExceptionIsolated ==
  Started =>
    LET caught == \A i \in 1..Len(calls) : calls[i].out # "KeyboardInterrupt"
    IN /\ pc = "running" => caught /\ exc = "none"
       /\ (pc = "idle" /\ caught) =>
            /\ exc = "none"
            /\ Range(RunSchedule) \subseteq
                 {Planned(calls[i]) : i \in 1..Len(calls)}
       /\ (pc = "idle" /\ ~caught) =>
            /\ exc = "KeyboardInterrupt"
            /\ Last(calls).out = "KeyboardInterrupt"
            /\ \A i \in 1..(Len(calls) - 1) :
                 calls[i].out # "KeyboardInterrupt"

\* A run that returned although a hook and then a test body raised, with an
\* invocation after them that returned.
C1_Witness ==
  /\ Finished
  /\ \E i, j, k \in 1..Len(calls) :
       /\ i < j /\ j < k
       /\ IsHook(calls[i]) /\ RaisedException(calls[i])
       /\ IsBody(calls[j]) /\ RaisedException(calls[j])
       /\ calls[k].out = "return"

----------------------------------------------------------------------------
\* C2: the invocations of a run are made in the order of the schedule, none
\* skipped and none added, and a run that returns has made them all: per
\* suite beforeAll hooks, then per direct test beforeEach hooks, body,
\* afterEach hooks, then the child suites one after the other, then afterAll
\* hooks, root suites in registration order, every list in registration
\* order.
C2_InvocationSequence ==
  Started =>
    /\ IsPrefix([i \in 1..Len(calls) |-> Planned(calls[i])], RunSchedule)
    /\ Finished => Len(calls) = Len(RunSchedule)

\* A finished run of a suite with a beforeEach hook, a test and a child suite
\* that has a test.
C2_Witness ==
  /\ Finished
  /\ \E s \in DOMAIN suites :
       /\ suites[s].before_each_hooks # <<>>
       /\ suites[s].tests # <<>>
       /\ suites[s].nested_suites # <<>>
       /\ suites[suites[s].nested_suites[1]].tests # <<>>

----------------------------------------------------------------------------
\* C3 as stated: every hook invocation that raises adds one entry to
\* result.errors and every test body that raises adds one entry and one to
\* failed, so that the entries added by a run number its failed bodies plus
\* its raising hooks.
C3_AnyFailureRecorded ==
  Started =>
    /\ result.failed = before.failed
                         + Cardinality(CallsWhere(LAMBDA c : IsBody(c) /\ Raised(c)))
    /\ Len(NewErrors) =
         Cardinality(CallsWhere(LAMBDA c : IsBody(c) /\ Raised(c)))
         + Cardinality(CallsWhere(LAMBDA c : IsHook(c) /\ Raised(c)))

\* C3, amended: every hook invocation that raises an error derived from
\* Exception adds exactly one entry to result.errors and leaves passed and
\* failed as they are; every test body that raises one adds one to failed and
\* the entry '<testName>: <message>'.  The entries a run adds are those of
\* its failures, in the order in which they occurred.
C3_CaughtFailureRecorded ==
  Started =>
    /\ result.failed = before.failed
         + Cardinality(CallsWhere(LAMBDA c : IsBody(c) /\ RaisedException(c)))
    /\ result.passed = before.passed
         + Cardinality(CallsWhere(LAMBDA c : IsBody(c) /\ ~Raised(c)))
    /\ IsPrefix(before.errors, result.errors)
    /\ Len(NewErrors) = Len(Failures)
    /\ \A k \in 1..Len(Failures) :
         LET c == Failures[k] IN
         CASE c.kind = "test_func" ->
                NewErrors[k] = <<TestOf(c).name, ": ", TextOf(c.out)>>
           [] c.kind = "before_each" ->
                /\ Len(NewErrors[k]) = 5
                /\ NewErrors[k][1] = "beforeEach"
                /\ NewErrors[k][3] = TestOf(c).name
                /\ NewErrors[k][5] = TextOf(c.out)
           [] c.kind = "after_each" ->
                /\ Len(NewErrors[k]) = 5
                /\ NewErrors[k][1] = "afterEach"
                /\ NewErrors[k][3] = TestOf(c).name
                /\ NewErrors[k][5] = TextOf(c.out)
           [] c.kind = "before_all" ->
                /\ Len(NewErrors[k]) = 5
                /\ NewErrors[k][1] = "beforeAll"
                /\ NewErrors[k][3] = suites[c.suite].name
                /\ NewErrors[k][5] = TextOf(c.out)
           [] c.kind = "after_all" ->
                /\ Len(NewErrors[k]) = 5
                /\ NewErrors[k][1] = "afterAll"
                /\ NewErrors[k][3] = suites[c.suite].name
                /\ NewErrors[k][5] = TextOf(c.out)

\* A finished run in which a test body raised and then a hook raised.
C3_Witness ==
  /\ Finished
  /\ Len(Failures) = 2
  /\ IsBody(Failures[1])
  /\ IsHook(Failures[2])

----------------------------------------------------------------------------
\* C4: when run() returns, passed + failed is the number of test bodies the
\* run executed, which is the number of tests of the tree, and passed is the
\* number of bodies that returned.
C4_CountsOfTheRun ==
  Finished =>
    /\ result.passed + result.failed = Cardinality(CallsWhere(IsBody))
    /\ result.passed + result.failed =
         Cardinality(UNION {Range(suites[s].tests) : s \in DOMAIN suites})
    /\ result.passed =
         Cardinality(CallsWhere(LAMBDA c : IsBody(c) /\ ~Raised(c)))

----------------------------------------------------------------------------
\* C5: run() returns true iff no test body raised during that run.
C5_TrueIffNoBodyRaised ==
  Finished =>
    (returned = TRUE <=> CallsWhere(LAMBDA c : IsBody(c) /\ Raised(c)) = {})

----------------------------------------------------------------------------
\* C6: every run() starts from a fresh result, so that the result after a run
\* counts the invocations of that run only.
C6_FreshResultPerRun ==
  /\ Started => before = TestResult
  /\ Finished =>
       /\ result.failed =
            Cardinality(CallsWhere(LAMBDA c : IsBody(c) /\ RaisedException(c)))
       /\ Len(result.errors) = Len(Failures)

----------------------------------------------------------------------------
\* C7: an each-hook of a suite is invoked only for the direct tests of that
\* suite, a beforeEach hook before the body of the test and an afterEach hook
\* after it, and in a run that returns each of them has been invoked exactly
\* once for every direct test: N times for N direct tests.
C7_EachHooksPerDirectTest ==
  Started =>
    /\ \A i \in 1..Len(calls) :
         LET c == calls[i]
             S == suites[c.suite]
             body == {j \in 1..Len(calls) :
                        IsBody(calls[j]) /\ calls[j].func = c.test}
         IN /\ c.kind = "before_each" =>
                 /\ c.func \in Range(S.before_each_hooks)
                 /\ \E test \in Range(S.tests) : test.test_func = c.test
                 /\ \A j \in body : i < j
            /\ c.kind = "after_each" =>
                 /\ c.func \in Range(S.after_each_hooks)
                 /\ \E test \in Range(S.tests) : test.test_func = c.test
                 /\ \E j \in body : j < i
            /\ c.kind = "test_func" =>
                 \A hook \in Range(S.before_each_hooks) :
                   \E j \in 1..(i - 1) :
                     calls[j].func = hook /\ calls[j].test = c.func
    /\ Finished =>
         \A s \in DOMAIN suites :
           \A hook \in Range(suites[s].before_each_hooks)
                         \cup Range(suites[s].after_each_hooks) :
             /\ Cardinality(CallsWhere(LAMBDA c : c.func = hook))
                  = Len(suites[s].tests)
             /\ \A test \in Range(suites[s].tests) :
                  Cardinality(CallsWhere(LAMBDA c : c.func = hook
                                           /\ c.test = test.test_func)) = 1

\* A finished run of a suite with an afterEach hook, one direct test and a
\* child suite that has a test.
C7_Witness ==
  /\ Finished
  /\ \E s \in DOMAIN suites :
       /\ Len(suites[s].after_each_hooks) = 1
       /\ Len(suites[s].tests) = 1
       /\ \E d \in Descendants(s) : suites[d].tests # <<>>

----------------------------------------------------------------------------
\* C8: every beforeAll invocation of a suite precedes, and every afterAll
\* invocation follows, the invocations made for the direct tests of the suite
\* and all invocations of its descendant suites; in a run that returns each
\* beforeAll and each afterAll hook of each suite has been invoked exactly
\* once, whatever tests and children the suite has.
C8_AllHooksOncePerSuite ==
  Started =>
    /\ \A i, j \in 1..Len(calls) :
         LET c == calls[i]
             d == calls[j]
             within == \/ d.suite \in Descendants(c.suite)
                       \/ d.suite = c.suite
                          /\ d.kind \in {"before_each", "test_func",
                                         "after_each"}
         IN /\ (c.kind = "before_all" /\ within) => i < j
            /\ (c.kind = "after_all" /\ within) => j < i
    /\ Finished =>
         \A s \in DOMAIN suites :
           \A hook \in Range(suites[s].before_all_hooks)
                         \cup Range(suites[s].after_all_hooks) :
             Cardinality(CallsWhere(LAMBDA c : c.func = hook)) = 1

\* A finished run of a suite with a beforeAll hook, an afterAll hook, no test
\* of its own, and a child suite that has a test.
C8_Witness ==
  /\ Finished
  /\ \E s \in DOMAIN suites :
       /\ suites[s].before_all_hooks # <<>>
       /\ suites[s].after_all_hooks # <<>>
       /\ suites[s].tests = <<>>
       /\ \E d \in Range(suites[s].nested_suites) : suites[d].tests # <<>>

----------------------------------------------------------------------------
\* C9: the body of a direct test of a suite is never invoked after the body
\* of a test of one of its descendant suites, wherever the child suite was
\* declared among the tests of the parent.
C9_TestsBeforeChildren ==
  Started =>
    \A i, j \in 1..Len(calls) :
      ( /\ IsBody(calls[i])
        /\ IsBody(calls[j])
        /\ calls[j].suite \in Descendants(calls[i].suite) ) => i < j

\* A finished run of a suite whose child suite, with a test, was declared
\* between two tests of the suite: the callables are numbered in the order
\* of their registration.
C9_Witness ==
  /\ Finished
  /\ \E s \in DOMAIN suites :
       /\ Len(suites[s].tests) = 2
       /\ \E d \in Range(suites[s].nested_suites) :
            /\ Len(suites[d].tests) = 1
            /\ suites[s].tests[1].test_func < suites[d].tests[1].test_func
            /\ suites[d].tests[1].test_func < suites[s].tests[2].test_func
       /\ Len(calls) = 3

----------------------------------------------------------------------------
\* The lists of a suite a registrar appends to.
ItemLists ==
  {"tests", "before_each_hooks", "before_all_hooks", "after_each_hooks",
   "after_all_hooks"}

\* C10: a call of it() or of a hook registrar fails with the registration
\* error iff the suite stack is empty, and then changes neither the tree nor
\* the registration context; otherwise it appends one item to one list of the
\* suite on top of the stack and changes nothing else.
C10_RegistrarContract ==
  [][ /\ (exc' = "RuntimeError" /\ exc # "RuntimeError") =>
           /\ suite_stack = <<>>
           /\ UNCHANGED <<suites, root_suites, suite_stack, current_suite>>
      /\ nfuncs' # nfuncs =>
           /\ suite_stack # <<>>
           /\ exc' = "none"
           /\ UNCHANGED <<root_suites, suite_stack, current_suite>>
           /\ \E list \in ItemLists :
                /\ Len(suites'[Last(suite_stack)][list])
                     = Len(suites[Last(suite_stack)][list]) + 1
                /\ suites' = [suites EXCEPT ![Last(suite_stack)][list] =
                                Append(@, Last(suites'[Last(suite_stack)][list]))]
    ]_vars

----------------------------------------------------------------------------
\* C11: describe() appends the new suite to the children of the current
\* suite if there is one and else to the root list, and makes it current;
\* when a describe() is over, by its return or by the error of its body, the
\* current suite and the suite stack are those it was called with.
C11_DescribeRestoresContext ==
  [][ /\ Len(suites') = Len(suites) + 1 =>
           LET new_suite == Len(suites') IN
           /\ IF current_suite # None
              THEN /\ suites'[current_suite].nested_suites =
                        Append(suites[current_suite].nested_suites, new_suite)
                   /\ root_suites' = root_suites
              ELSE /\ root_suites' = Append(root_suites, new_suite)
                   /\ \A s \in DOMAIN suites : suites'[s] = suites[s]
           /\ current_suite' = new_suite
           /\ suite_stack' = Append(suite_stack, new_suite)
      /\ Len(describing') < Len(describing) =>
           LET over == describing[Len(describing') + 1] IN
           /\ current_suite' = over.parent_suite
           /\ suite_stack' = over.stack
    ]_vars

----------------------------------------------------------------------------
\* Vocabulary of the matcher properties.

\* The calls of to_throw made on the Expectation.
Throws == {k \in 1..Len(chain) : chain[k].matcher = "to_throw"}

\* The matcher call returned the Expectation it was called on.
Passed(c) == c.outcome.type = "return" /\ c.outcome.actual = c.self

\* The matcher call raised an error of this type with this message text.
Failed(c, type, text) == c.outcome.type = type /\ c.outcome.text = text

\* C12: to_throw on a callable that returns without raising fails with the
\* AssertionError that tells the function did not throw, whatever the
\* expected error kind.
C12_NoThrowFails ==
  \A k \in Throws :
    (chain[k].self.t = "function" /\ chain[k].self.n = "") =>
      Failed(chain[k], "AssertionError",
             "Expected function to throw an exception, but it didn't")

\* to_throw on a callable that raises e passes iff no kind is expected or e
\* is of the expected kind, and else fails with the AssertionError of a kind
\* mismatch; on an actual that is not callable it fails with the
\* AssertionError asking for a callable, and has invoked nothing.
ThrowContract(c) ==
  /\ (c.self.t = "function" /\ c.self.n # "") =>
       IF c.expected = PyNone \/ c.expected.n \in Bases(c.self.n)
       THEN Passed(c)
       ELSE /\ Failed(c, "AssertionError",
                      "Expected function to throw {}, but got {}")
            /\ c.outcome.args = <<c.expected, PyType(c.self.n)>>
  /\ ~Callable(c.self) =>
       /\ Failed(c, "AssertionError",
                 "Expected a callable function to test for exceptions")
       /\ c.outcome.invoked = 0

\* C13 (as claimed): the contract of to_throw holds for a callable that
\* raises any error.
C13_AnyRaiseJudged == \A k \in Throws : ThrowContract(chain[k])

\* C13: the contract of to_throw holds for a callable that raises an error
\* derived from Exception, and for an actual that is not callable.
C13_ExceptionJudged ==
  \A k \in Throws :
    (Callable(chain[k].self) => IsException([type |-> chain[k].self.n])) =>
      ThrowContract(chain[k])

\* to_throw was given a kind the raised error is not of, after a matcher
\* that passed.
C13_Witness ==
  /\ Len(chain) = MaxChain
  /\ Last(chain).matcher = "to_throw"
  /\ Last(chain).self = PyFunc("ZeroDivisionError")
  /\ Last(chain).expected = PyType("TypeError")

\* C14: every error a matcher raises is an AssertionError.
C14_OnlyAssertionError ==
  \A k \in 1..Len(chain) :
    chain[k].outcome.type \in {"return", "AssertionError"}

\* The condition on which a matcher other than to_throw passes.
Holds(matcher, a, e) ==
  CASE matcher \in {"to_be", "to_equal"} -> a = e
    [] matcher = "to_be_truthy" -> Truthy(a)
    [] matcher = "to_be_falsy" -> ~Truthy(a)
    [] matcher = "to_be_none" -> a = PyNone
    [] matcher = "to_be_greater_than" -> Ordered(a, e) /\ PyLt(e, a)
    [] matcher = "to_be_less_than" -> Ordered(a, e) /\ PyLt(a, e)
    [] matcher = "to_be_greater_than_or_equal" ->
         Ordered(a, e) /\ (a = e \/ PyLt(e, a))
    [] matcher = "to_be_less_than_or_equal" ->
         Ordered(a, e) /\ (a = e \/ PyLt(a, e))
    [] matcher = "to_contain" -> Iterable(e, a) /\ PyIn(e, a)
    [] matcher = "to_have_length" -> Sized(a) /\ e = PyInt(Len(a.s))
    [] matcher = "to_be_instance_of" -> e.t = "type" /\ e.n \in Bases(a.t)

\* C15: every matcher of a chain is called on an Expectation of the value
\* given to expect, a matcher other than to_throw returns iff its condition
\* holds of that value, and only the last call of a chain may have raised:
\* the chain succeeds iff every condition holds, and else raises at the first
\* matcher whose condition fails.
C15_ChainJudgesEachAlone ==
  /\ actual = wrapped
  /\ \A k \in 1..Len(chain) :
       /\ chain[k].self = wrapped
       /\ chain[k].matcher # "to_throw" =>
            (chain[k].outcome.type = "return"
               <=> Holds(chain[k].matcher, wrapped, chain[k].expected))
       /\ k < Len(chain) => Passed(chain[k])

\* expect([1, 2]).to_have_length(2).to_be_greater_than([1, 2]): the first
\* matcher passed and the second raised.
C15_Witness ==
  /\ wrapped = PyList(<<1, 2>>)
  /\ Len(chain) = MaxChain
  /\ chain[1].matcher = "to_have_length"
  /\ chain[1].outcome.type = "return"
  /\ Last(chain).matcher = "to_be_greater_than"
  /\ Last(chain).outcome.type = "AssertionError"

----------------------------------------------------------------------------
\* Vocabulary of the summary properties.

\* The positions in the summary of the lines made of this text and value.
LinesOf(text, value) ==
  {k \in 1..Len(summary) :
     /\ Len(summary[k]) = 2
     /\ summary[k][1] = text
     /\ summary[k][2] = value}

\* The positions of the lines that start with this text.
LinesWith(text) == {k \in 1..Len(summary) : summary[k][1] = text}

\* The summary has a Total line, of passed + failed, and it ends with a
\* Failures block that lists every entry of errors, in order, iff failed > 0.
TotalAndFailures ==
  /\ LinesOf("Total: ", result.passed + result.failed) # {}
  /\ result.failed = 0 => LinesWith("Failures:") = {}
  /\ result.failed > 0 =>
       \E k \in LinesWith("Failures:") :
         /\ LinesWith("Failures:") = {k}
         /\ SubSeq(summary, k + 1, Len(summary)) =
              [i \in 1..Len(result.errors) |-> <<"  ", result.errors[i]>>]

\* C16 (as claimed): the summary of every run has a Passed line, a Failed
\* line and a Total line of passed + failed, whatever the counts, and a
\* Failures block of every entry of errors iff failed > 0.
C16_SummaryHasAllLines ==
  Finished =>
    /\ LinesOf("Passed: ", result.passed) # {}
    /\ LinesOf("Failed: ", result.failed) # {}
    /\ TotalAndFailures

\* C16: the summary of every run has a Passed line iff passed > 0 and a
\* Failed line iff failed > 0, each with its count, a Total line of
\* passed + failed whatever the counts, and a Failures block of every entry
\* of errors, in order, iff failed > 0.
C16_SummaryOmitsZeroCounts ==
  Finished =>
    /\ LinesWith("Passed: ") = LinesOf("Passed: ", result.passed)
    /\ LinesWith("Passed: ") # {} <=> result.passed > 0
    /\ LinesWith("Failed: ") = LinesOf("Failed: ", result.failed)
    /\ LinesWith("Failed: ") # {} <=> result.failed > 0
    /\ TotalAndFailures

\* A run ended with no test passed, one failed, and the error of a hook
\* next to the failure in errors.
C16_Witness ==
  /\ Finished
  /\ result.passed = 0
  /\ result.failed = 1
  /\ Len(result.errors) = 2

----------------------------------------------------------------------------
\* Vocabulary of the each-hook properties.

IsEachHook(c) == c.kind \in {"before_each", "after_each"}

\* The hook list an each-hook invocation comes from.
HookList(c) ==
  IF c.kind = "before_each"
  THEN suites[c.suite].before_each_hooks
  ELSE suites[c.suite].after_each_hooks

\* The test of the each-hook invocation calls[i] has had its body invoked
\* exactly once, and every hook that follows the invoked one in its list has
\* been invoked for that test after it.
TestGoesOn(i) ==
  LET c == calls[i]
      p == CHOOSE p \in 1..Len(HookList(c)) : HookList(c)[p] = c.func
  IN /\ Cardinality(CallsWhere(LAMBDA b : IsBody(b) /\ b.test = c.test)) = 1
     /\ \A q \in (p + 1)..Len(HookList(c)) :
          \E j \in (i + 1)..Len(calls) :
            /\ calls[j].kind = c.kind
            /\ calls[j].test = c.test
            /\ calls[j].func = HookList(c)[q]

----------------------------------------------------------------------------
\* Vocabulary of the tree properties.

\* The places where suite s is linked: <<None, i>> for position i of the root
\* list, <<p, i>> for position i of the children of suite p.
PlacesOfSuite(s) ==
  {<<None, i>> : i \in {i \in 1..Len(root_suites) : root_suites[i] = s}}
  \cup UNION {{<<p, i>> : i \in {i \in 1..Len(suites[p].nested_suites) :
                                  suites[p].nested_suites[i] = s}}
              : p \in DOMAIN suites}

\* The places where the test of body f is held: position i of the tests of
\* suite p.
PlacesOfTest(f) ==
  UNION {{<<p, i>> : i \in {i \in 1..Len(suites[p].tests) :
                             suites[p].tests[i].test_func = f}}
         : p \in DOMAIN suites}

\* The bodies of the tests that it() has registered.
Bodies ==
  UNION {{suites[p].tests[i].test_func : i \in 1..Len(suites[p].tests)}
         : p \in DOMAIN suites}

StrictForest ==
  /\ \A s \in DOMAIN suites :
       /\ Cardinality(PlacesOfSuite(s)) = 1
       /\ s \notin Descendants(s)
  /\ \A f \in Bodies : Cardinality(PlacesOfTest(f)) = 1

\* C18: whatever registration calls have been made, every suite is linked
\* exactly once, in the root list or in the children of one suite, which is
\* the suite that was current when describe created it (the root list when
\* none was); no suite is below itself; and every test is held exactly once,
\* by the suite that was current when it() registered it.
C18_StrictForest ==
  [][ /\ StrictForest'
      /\ \A new_suite \in DOMAIN suites' \ DOMAIN suites :
           PlacesOfSuite(new_suite)' =
             {<<current_suite,
                IF current_suite = None
                THEN Len(root_suites')
                ELSE Len(suites'[current_suite].nested_suites)>>}
      /\ \A f \in Bodies' \ Bodies :
           PlacesOfTest(f)' =
             {<<current_suite, Len(suites'[current_suite].tests)>>}
    ]_vars

\* Three suites under one root and a test, registered while the stack
\* holds suites whose describe was ended by an error.
C18_Witness ==
  /\ Len(suites) = MaxSuites
  /\ exc = "none"
  /\ Len(root_suites) = 1
  /\ Len(suite_stack) > Len(describing) + 1
  /\ Bodies # {}

----------------------------------------------------------------------------
\* C19: in every state that registration calls reach, current_suite is the
\* top of suite_stack, and it is None exactly when suite_stack is empty.
C19_CurrentIsTopOfStack ==
  /\ current_suite = None <=> suite_stack = <<>>
  /\ suite_stack # <<>> => current_suite = Last(suite_stack)

----------------------------------------------------------------------------
\* The run has invoked the body of every registered test exactly once and
\* printed the header of every suite exactly once.
EachExactlyOnce ==
  /\ \A f \in Bodies :
       Cardinality(CallsWhere(LAMBDA c : IsBody(c) /\ c.func = f)) = 1
  /\ \A s \in DOMAIN suites :
       Cardinality({k \in 1..Len(visited) : visited[k] = suites[s].name}) = 1

\* run() is at a step it can make: the call of a hook or of a test body by
\* the innermost run_suite (the guards of RunBeforeAllHook, RunBeforeEachHook,
\* RunTestFunc, RunAfterEachHook and RunAfterAllHook, each of which has the
\* outcome Returns to take) or, after the last root suite, its summary (the
\* guard of RunSummary).
HasStep ==
  IF running = <<>>
  THEN root_i > Len(root_suites)
  ELSE CASE Top.pc = "before_all" ->
              Top.h \in DOMAIN TopSuite.before_all_hooks
         [] Top.pc = "before_each" ->
              /\ Top.t \in DOMAIN TopSuite.tests
              /\ Top.h \in DOMAIN TopSuite.before_each_hooks
         [] Top.pc = "test_func" -> Top.t \in DOMAIN TopSuite.tests
         [] Top.pc = "after_each" ->
              /\ Top.t \in DOMAIN TopSuite.tests
              /\ Top.h \in DOMAIN TopSuite.after_each_hooks
         [] Top.pc = "after_all" ->
              Top.h \in DOMAIN TopSuite.after_all_hooks
         [] OTHER -> FALSE

\* C20 (as claimed): a run() that is over, whichever way, has invoked every
\* test body exactly once and visited every suite exactly once.
C20_EndedRunIsComplete == (Started /\ pc = "idle") => EachExactlyOnce

\* C20: a run() in progress always has a step to make, every step of it
\* either ends it or makes one more invocation, and the invocations made
\* never outnumber those of the schedule of the tree: when every invoked
\* callable ends, run() ends after finitely many steps.  When it returns it
\* has invoked every test body exactly once and visited every suite exactly
\* once; it ends without returning only by an error that is no Exception.
C20_RunEndsComplete ==
  /\ [](pc = "running" =>
         /\ HasStep
         /\ Len(calls) <= Len(RunSchedule))
  /\ [][pc = "running" =>
          \/ pc' = "idle"
          \/ pc' = "running" /\ Len(calls') = Len(calls) + 1]_vars
  /\ [](Finished => EachExactlyOnce)
  /\ []((Started /\ pc = "idle" /\ ~Finished) =>
          (exc = "KeyboardInterrupt" /\ Last(calls).out = "KeyboardInterrupt"))

\* A run of three suites, two of them children, that returned after a test
\* body and a hook raised.
C20_Witness ==
  /\ Finished
  /\ Len(visited) = MaxSuites
  /\ Len(root_suites) = 1
  /\ Bodies # {}
  /\ Len(Failures) = MaxRaises

============================================================================
